---- MODULE Spec2Model ----
(***************************************************************************)
(* Model of sheldon's command line resolution, src/cli/mod.rs:             *)
(* Opt::from_raw_opt, EditPlugin::from_add, LockMode::from_lock_flags,     *)
(* LockMode::from_source_flags, resolve_paths, default_config_dir and      *)
(* default_data_dir.                                                       *)
(*                                                                         *)
(* Option<T> is a sequence of length at most one: None is <<>> and         *)
(* Some(v) is <<v>>.  A string or a path is the sequence of its pieces,    *)
(* where the piece "/" is the Unix separator and any other piece is a      *)
(* non-empty run of characters without a separator; two neighbouring runs  *)
(* are always fused into one, so that equal texts are equal sequences.     *)
(* The empty text "" is <<>>.  "." and ".." components are not among the   *)
(* inputs.                                                                 *)
(***************************************************************************)
EXTENDS Integers, Sequences, FiniteSets, TLC

VARIABLES
    raw_opt,    \* the RawOpt handed to from_raw_opt
    pc,         \* position inside from_raw_opt
    command,    \* Option<Command>: the resolved command, once the match is done
    lock_mode,  \* Option<LockMode>: `let mut lock_mode = None;`
    output,     \* Option<Output>
    home,       \* Option<PathBuf>: the home directory found
    paths,      \* Option<(config_dir, data_dir, config_file)>
    opt,        \* Option<Opt>: the value from_raw_opt returns
    exit_code,  \* Option<i32>: the code given to process::exit
    stdout,     \* what has been printed on standard output
    stderr,     \* what log_error has printed
    env,        \* the environment lookups made so far: name -> value found
    called      \* the functions entered so far, in order

vars == <<raw_opt, pc, command, lock_mode, output, home, paths, opt,
          exit_code, stdout, stderr, env, called>>

None == <<>>
Some(v) == <<v>>
IsSome(o) == o # <<>>
Unwrap(o) == o[1]

SEP == "/"

-----------------------------------------------------------------------------
(* std::path on Unix, at the level of the text of the path.                 *)

\* Concatenation of two texts (format!, OsString::push).
Cat(a, b) ==
    IF a = <<>> THEN b
    ELSE IF b = <<>> THEN a
    ELSE IF a[Len(a)] # SEP /\ b[1] # SEP
         THEN SubSeq(a, 1, Len(a) - 1) \o <<a[Len(a)] \o b[1]>> \o Tail(b)
         ELSE a \o b

\* Path::is_absolute / has_root.
is_absolute(p) == p # <<>> /\ p[1] = SEP

\* Components::trim_right: trailing separators are not part of the path's
\* body; the separator that is the root stays.
RECURSIVE trim_right(_)
trim_right(p) ==
    IF Len(p) > 1 /\ p[Len(p)] = SEP
    THEN trim_right(SubSeq(p, 1, Len(p) - 1))
    ELSE p

\* A parent that takes a path of a single component to have none.
parent_needs_separator(p) ==
    LET q == trim_right(p) IN
    IF Len(q) <= 1
    THEN None
    ELSE Some(trim_right(SubSeq(q, 1, Len(q) - 1)))

\* Path::parent: None when the path ends in the root or is empty; otherwise
\* the text in front of the last component.
parent(p) ==
    LET q == trim_right(p) IN
    IF q = <<>> \/ q = <<SEP>>
    THEN None
    ELSE Some(trim_right(SubSeq(q, 1, Len(q) - 1)))

\* PathBuf::push: an absolute `p` replaces the path; otherwise a separator is
\* added unless the path is empty or already ends in one.
push(self, p) ==
    IF is_absolute(p) THEN p
    ELSE IF self # <<>> /\ self[Len(self)] # SEP
         THEN Cat(self \o <<SEP>>, p)
         ELSE Cat(self, p)

\* Path::join.
join(self, p) == push(self, p)

-----------------------------------------------------------------------------
(* The inputs.                                                              *)

Bools == {FALSE, TRUE}

ColorChoices == {"Auto", "Always", "Never"}

Shells == {"Zsh"}

\* Values of --config-file.
ConfigFiles ==
    { <<>>,                                   \* ""
      <<SEP>>,                                \* "/"
      <<"y.toml">>,                           \* "y.toml"
      <<SEP, "y.toml">>,                      \* "/y.toml"
      <<SEP, "x", SEP, "y.toml">>,            \* "/x/y.toml"
      <<"x", SEP, SEP, "y.toml", SEP>> }      \* "x//y.toml/"

\* Values of --config-dir.
ConfigDirs ==
    { <<SEP, "a">>,                           \* "/a"
      <<"rel", SEP>> }                        \* "rel/"

\* Values of --data-dir.
DataDirs ==
    { <<SEP, "d", SEP>>,                      \* "/d/"
      <<"d">> }                               \* "d"

\* Values of --profile.
Profiles ==
    { <<>>,                                   \* ""
      <<"work">>,                             \* "work"
      <<"a", SEP, "b">> }                     \* "a/b"

\* Results of home::home_dir().
Homes ==
    { <<SEP, "home", SEP, "u">>,              \* "/home/u"
      <<SEP>> }                               \* "/"

\* Values of XDG_CONFIG_HOME and of XDG_DATA_HOME.
XdgValues ==
    { <<SEP, "cfg">>,                         \* "/cfg"
      <<>> }                                  \* "" (set, but empty)

\* Values of --branch, --rev and --tag.
BranchNames == { <<"main">> }
RevNames == { <<"abc123">> }
TagNames == { <<"v1">> }

Opts(S) == {None} \cup {Some(v) : v \in S}

Adds ==
    [ name : {<<"foo">>},
      github : {Some(<<"user", SEP, "repo">>)},
      branch : Opts(BranchNames),
      rev : Opts(RevNames),
      tag : Opts(TagNames),
      uses : {Some(<<"*.plugin.zsh">>)} ]

RawCommands ==
    [kind : {"Init"}, shell : Opts(Shells)]
    \cup [kind : {"Add"}, add : Adds]
    \cup [kind : {"Edit"}]
    \cup [kind : {"Remove"}, name : {<<"foo">>}]
    \cup [kind : {"Lock"}, update : Bools, reinstall : Bools]
    \cup [kind : {"Source"}, relock : Bools, update : Bools, reinstall : Bools]
    \cup [kind : {"Completions"}, shell : Shells]
    \cup [kind : {"Version"}]

RawOpts ==
    [ quiet : Bools,
      non_interactive : Bools,
      verbose : Bools,
      color : ColorChoices,
      data_dir : Opts(DataDirs),
      config_dir : Opts(ConfigDirs),
      config_file : Opts(ConfigFiles),
      profile : Opts(Profiles),
      command : RawCommands ]

-----------------------------------------------------------------------------
(* EditPlugin::from_add and LockMode.                                       *)

Panic == [panic |-> TRUE, value |-> None]
Return(v) == [panic |-> FALSE, value |-> v]

\* A match whose arms do not ask for the other two to be absent: the first
\* reference present wins.
reference_first_wins(branch, rev, tag) ==
    CASE IsSome(branch) -> Return(Some([kind |-> "Branch", s |-> Unwrap(branch)]))
      [] ~IsSome(branch) /\ IsSome(rev) ->
            Return(Some([kind |-> "Rev", s |-> Unwrap(rev)]))
      [] ~IsSome(branch) /\ ~IsSome(rev) /\ IsSome(tag) ->
            Return(Some([kind |-> "Tag", s |-> Unwrap(tag)]))
      [] OTHER -> Return(None)

\* A match whose `rev` arm builds a Tag.
reference_rev_as_tag(branch, rev, tag) ==
    CASE IsSome(branch) /\ ~IsSome(rev) /\ ~IsSome(tag) ->
            Return(Some([kind |-> "Branch", s |-> Unwrap(branch)]))
      [] ~IsSome(branch) /\ IsSome(rev) /\ ~IsSome(tag) ->
            Return(Some([kind |-> "Tag", s |-> Unwrap(rev)]))
      [] ~IsSome(branch) /\ ~IsSome(rev) /\ IsSome(tag) ->
            Return(Some([kind |-> "Tag", s |-> Unwrap(tag)]))
      [] ~IsSome(branch) /\ ~IsSome(rev) /\ ~IsSome(tag) ->
            Return(None)
      [] OTHER -> Panic

\* `let reference = match (branch, rev, tag) { ... }`
reference_of(branch, rev, tag) ==
    CASE IsSome(branch) /\ ~IsSome(rev) /\ ~IsSome(tag) ->
            Return(Some([kind |-> "Branch", s |-> Unwrap(branch)]))
      [] ~IsSome(branch) /\ IsSome(rev) /\ ~IsSome(tag) ->
            Return(Some([kind |-> "Rev", s |-> Unwrap(rev)]))
      [] ~IsSome(branch) /\ ~IsSome(rev) /\ IsSome(tag) ->
            Return(Some([kind |-> "Tag", s |-> Unwrap(tag)]))
      [] ~IsSome(branch) /\ ~IsSome(rev) /\ ~IsSome(tag) ->
            Return(None)
      [] OTHER -> Panic

\* EditPlugin::from_add: (name, plugin), or a panic.
from_add(add) ==
    LET reference == reference_of(add.branch, add.rev, add.tag) IN
    IF reference.panic THEN Panic
    ELSE Return(<<add.name,
                  [ github |-> add.github,
                    inline |-> None,
                    reference |-> reference.value,
                    uses |-> add.uses,
                    rest |-> None ]>>)

\* LockMode::from_lock_flags.
from_lock_flags(update, reinstall) ==
    CASE ~update /\ ~reinstall -> Return(Some("Normal"))
      [] update /\ ~reinstall -> Return(Some("Update"))
      [] ~update /\ reinstall -> Return(Some("Reinstall"))
      [] update /\ reinstall -> Panic

\* A source table in which --relock decides first.
from_source_flags_relock_first(relock, update, reinstall) ==
    CASE ~relock /\ ~update /\ ~reinstall -> Return(None)
      [] relock /\ ~(update /\ reinstall) -> Return(Some("Normal"))
      [] ~relock /\ update /\ ~reinstall -> Return(Some("Update"))
      [] ~relock /\ ~update /\ reinstall -> Return(Some("Reinstall"))
      [] update /\ reinstall -> Panic

\* LockMode::from_source_flags.
from_source_flags(relock, update, reinstall) ==
    CASE ~relock /\ ~update /\ ~reinstall -> Return(None)
      [] relock /\ ~update /\ ~reinstall -> Return(Some("Normal"))
      [] update /\ ~reinstall -> Return(Some("Update"))
      [] ~update /\ reinstall -> Return(Some("Reinstall"))
      [] update /\ reinstall -> Panic

-----------------------------------------------------------------------------
(* Path resolution.                                                         *)

\* A default config directory that does not look at XDG_CONFIG_HOME.
default_config_dir_no_xdg(h, xdg_config_home) ==
    push(join(h, <<".config">>), <<"sheldon">>)

\* default_config_dir, given what env::var_os("XDG_CONFIG_HOME") returns.
default_config_dir(h, xdg_config_home) ==
    push(IF IsSome(xdg_config_home)
         THEN Unwrap(xdg_config_home)
         ELSE join(h, <<".config">>),
         <<"sheldon">>)

\* default_data_dir, given what env::var_os("XDG_DATA_HOME") returns.
default_data_dir(h, xdg_data_home) ==
    push(IF IsSome(xdg_data_home)
         THEN Unwrap(xdg_data_home)
         ELSE join(h, <<".local", SEP, "share">>),
         <<"sheldon">>)

Ok(v) == [ok |-> TRUE, value |-> Some(v), err |-> None]
Err(e) == [ok |-> FALSE, value |-> None, err |-> Some(e)]

\* `match (config_dir, config_file) { ... }` of resolve_paths.
resolve_config(h, config_dir, config_file, xdg_config_home) ==
    CASE IsSome(config_dir) /\ IsSome(config_file) ->
            Ok(<<Unwrap(config_dir), Unwrap(config_file)>>)
      [] ~IsSome(config_dir) /\ IsSome(config_file) ->
            LET file == Unwrap(config_file) IN
            IF IsSome(parent(file))
            THEN Ok(<<Unwrap(parent(file)), file>>)
            ELSE Err([ msg |-> "failed to get parent directory of config file path",
                       path |-> Some(file) ])
      [] IsSome(config_dir) /\ ~IsSome(config_file) ->
            LET dir == Unwrap(config_dir) IN
            Ok(<<dir, join(dir, <<"plugins.toml">>)>>)
      [] ~IsSome(config_dir) /\ ~IsSome(config_file) ->
            LET dir == default_config_dir(h, xdg_config_home) IN
            Ok(<<dir, join(dir, <<"plugins.toml">>)>>)

\* `data_dir.unwrap_or_else(|| default_data_dir(home))`
resolve_data(h, data_dir, xdg_data_home) ==
    IF IsSome(data_dir) THEN Unwrap(data_dir)
    ELSE default_data_dir(h, xdg_data_home)

\* resolve_paths: Ok((config_dir, data_dir, config_file)) or Err.
resolve_paths(h, config_dir, data_dir, config_file, xdg_config_home, xdg_data_home) ==
    LET c == resolve_config(h, config_dir, config_file, xdg_config_home) IN
    IF ~c.ok THEN c
    ELSE Ok(<<Unwrap(c.value)[1],
              resolve_data(h, data_dir, xdg_data_home),
              Unwrap(c.value)[2]>>)

\* The environment variables resolve_paths reads on this input.
reads_config_home(config_dir, config_file) ==
    ~IsSome(config_dir) /\ ~IsSome(config_file)

reads_data_home(config_dir, data_dir, config_file) ==
    /\ ~IsSome(data_dir)
    /\ resolve_config(<<>>, config_dir, config_file, None).ok

-----------------------------------------------------------------------------
(* Opt::from_raw_opt.                                                       *)

\* A verbosity in which --verbose is tested first.
verbosity_verbose_first(quiet, verbose) ==
    IF verbose THEN "Verbose"
    ELSE IF quiet THEN "Quiet"
    ELSE "Normal"

\* The verbosity chosen from --quiet and --verbose.
verbosity_of(quiet, verbose) ==
    IF quiet THEN "Quiet"
    ELSE IF verbose THEN "Verbose"
    ELSE "Normal"

\* ColorChoice::is_color, given whether standard output is a terminal.
is_color(color, tty) ==
    CASE color = "Always" -> TRUE
      [] color = "Never" -> FALSE
      [] color = "Auto" -> tty

\* A lock file whose match has no `Some("")` pattern.
lock_file_no_empty_profile(data_dir, profile) ==
    IF profile = None
    THEN join(data_dir, <<"plugins.lock">>)
    ELSE join(data_dir, Cat(Cat(<<"plugins.">>, Unwrap(profile)), <<".lock">>))

\* `let lock_file = match profile.as_deref() { ... }`
lock_file_of(data_dir, profile) ==
    IF profile = None \/ profile = Some(<<>>)
    THEN join(data_dir, <<"plugins.lock">>)
    ELSE join(data_dir, Cat(Cat(<<"plugins.">>, Unwrap(profile)), <<".lock">>))

clone_dir_of(data_dir) == join(data_dir, <<"repos">>)

download_dir_of(data_dir) == join(data_dir, <<"downloads">>)

Init ==
    /\ raw_opt \in RawOpts
    /\ pc = "match"
    /\ command = None
    /\ lock_mode = None
    /\ output = None
    /\ home = None
    /\ paths = None
    /\ opt = None
    /\ exit_code = None
    /\ stdout = <<>>
    /\ stderr = <<>>
    /\ env = <<>>
    /\ called = <<>>

\* The arm taken by `match command` leaves a command and goes on.
Matched(cmd) ==
    /\ command' = Some(cmd)
    /\ pc' = "output"
    /\ UNCHANGED <<raw_opt, output, home, paths, opt, exit_code, stdout,
                   stderr, env>>

\* unreachable!() inside the match.
Panicked ==
    /\ pc' = "panicked"
    /\ UNCHANGED <<raw_opt, command, lock_mode, output, home, paths, opt,
                   exit_code, stdout, stderr, env>>

\* process::exit(code).
Exit(code) ==
    /\ pc' = "exited"
    /\ exit_code' = Some(code)

MatchInit ==
    /\ pc = "match"
    /\ raw_opt.command.kind = "Init"
    /\ Matched([kind |-> "Init", shell |-> raw_opt.command.shell])
    /\ UNCHANGED <<lock_mode, called>>

MatchAdd ==
    /\ pc = "match"
    /\ raw_opt.command.kind = "Add"
    /\ called' = Append(called, "from_add")
    /\ LET r == from_add(raw_opt.command.add) IN
       IF r.panic
       THEN Panicked
       ELSE /\ Matched([kind |-> "Add", name |-> r.value[1], plugin |-> r.value[2]])
            /\ UNCHANGED lock_mode

MatchEdit ==
    /\ pc = "match"
    /\ raw_opt.command.kind = "Edit"
    /\ Matched([kind |-> "Edit"])
    /\ UNCHANGED <<lock_mode, called>>

MatchRemove ==
    /\ pc = "match"
    /\ raw_opt.command.kind = "Remove"
    /\ Matched([kind |-> "Remove", name |-> raw_opt.command.name])
    /\ UNCHANGED <<lock_mode, called>>

MatchLock ==
    /\ pc = "match"
    /\ raw_opt.command.kind = "Lock"
    /\ called' = Append(called, "from_lock_flags")
    /\ LET r == from_lock_flags(raw_opt.command.update, raw_opt.command.reinstall) IN
       IF r.panic
       THEN Panicked
       ELSE /\ lock_mode' = r.value
            /\ Matched([kind |-> "Lock"])

MatchSource ==
    /\ pc = "match"
    /\ raw_opt.command.kind = "Source"
    /\ called' = Append(called, "from_source_flags")
    /\ LET r == from_source_flags(raw_opt.command.relock, raw_opt.command.update,
                                  raw_opt.command.reinstall) IN
       IF r.panic
       THEN Panicked
       ELSE /\ lock_mode' = r.value
            /\ Matched([kind |-> "Source"])

MatchCompletions ==
    /\ pc = "match"
    /\ raw_opt.command.kind = "Completions"
    /\ stdout' = Append(stdout, [what |-> "completions", shell |-> Some(raw_opt.command.shell)])
    /\ Exit(0)
    /\ UNCHANGED <<raw_opt, command, lock_mode, output, home, paths, opt,
                   stderr, env, called>>

\* A Version arm that prints and falls through instead of exiting.
MatchVersionNoExit ==
    /\ pc = "match"
    /\ raw_opt.command.kind = "Version"
    /\ stdout' = Append(stdout, [what |-> "version", shell |-> None])
    /\ command' = Some([kind |-> "Version"])
    /\ pc' = "output"
    /\ UNCHANGED <<raw_opt, lock_mode, output, home, paths, opt,
                   exit_code, stderr, env, called>>

MatchVersion ==
    /\ pc = "match"
    /\ raw_opt.command.kind = "Version"
    /\ stdout' = Append(stdout, [what |-> "version", shell |-> None])
    /\ Exit(0)
    /\ UNCHANGED <<raw_opt, command, lock_mode, output, home, paths, opt,
                   stderr, env, called>>

\* `let verbosity = ...; let output = Output { verbosity, no_color: ... };`
BuildOutput ==
    /\ pc = "output"
    /\ \E tty \in Bools :
          /\ output' = Some([ verbosity |-> verbosity_of(raw_opt.quiet, raw_opt.verbose),
                              no_color |-> ~is_color(raw_opt.color, tty) ])
          /\ env' = IF raw_opt.color = "Auto" THEN ("stdout_is_tty" :> Some(tty)) @@ env
                    ELSE env
    /\ pc' = "home"
    /\ UNCHANGED <<raw_opt, command, lock_mode, home, paths, opt, exit_code,
                   stdout, stderr, called>>

\* A home lookup that falls back to the root directory instead of exiting.
LookupHomeFallback ==
    /\ pc = "home"
    /\ called' = Append(called, "home_dir")
    /\ \E h \in Opts(Homes) :
          /\ env' = ("home_dir" :> h) @@ env
          /\ home' = IF IsSome(h) THEN h ELSE Some(<<SEP>>)
          /\ pc' = "paths"
    /\ UNCHANGED <<raw_opt, command, lock_mode, output, paths, opt, stdout,
                   stderr, exit_code>>

\* `let home = match home::home_dir() { ... }`
LookupHome ==
    /\ pc = "home"
    /\ called' = Append(called, "home_dir")
    /\ \E h \in Opts(Homes) :
          /\ env' = ("home_dir" :> h) @@ env
          /\ IF IsSome(h)
             THEN /\ home' = h
                  /\ pc' = "paths"
                  /\ UNCHANGED <<stderr, exit_code>>
             ELSE /\ stderr' = Append(stderr,
                        [ no_color |-> Unwrap(output).no_color,
                          err |-> [ msg |-> "failed to determine the current user's home directory",
                                    path |-> None ] ])
                  /\ Exit(1)
                  /\ UNCHANGED home
    /\ UNCHANGED <<raw_opt, command, lock_mode, output, paths, opt, stdout>>

\* `match resolve_paths(&home, config_dir, data_dir, config_file) { ... }`
ResolvePaths ==
    /\ pc = "paths"
    /\ called' = Append(called, "resolve_paths")
    /\ \E xc \in Opts(XdgValues), xd \in Opts(XdgValues) :
          LET r == resolve_paths(Unwrap(home), raw_opt.config_dir, raw_opt.data_dir,
                                 raw_opt.config_file, xc, xd)
              e1 == IF reads_config_home(raw_opt.config_dir, raw_opt.config_file)
                    THEN ("XDG_CONFIG_HOME" :> xc) @@ env ELSE env
              e2 == IF reads_data_home(raw_opt.config_dir, raw_opt.data_dir,
                                       raw_opt.config_file)
                    THEN ("XDG_DATA_HOME" :> xd) @@ e1 ELSE e1
          IN
          /\ env' = e2
          /\ IF r.ok
             THEN /\ paths' = r.value
                  /\ pc' = "context"
                  /\ UNCHANGED <<stderr, exit_code>>
             ELSE /\ stderr' = Append(stderr,
                        [ no_color |-> Unwrap(output).no_color,
                          err |-> Unwrap(r.err) ])
                  /\ Exit(1)
                  /\ UNCHANGED paths
    /\ UNCHANGED <<raw_opt, command, lock_mode, output, home, opt, stdout>>

\* A Context whose lock mode defaults to Normal when no flag set one.
context_default_lock_mode(ro, h, p, out, lm) ==
    [ version |-> "CRATE_RELEASE",
      home |-> h,
      config_dir |-> p[1],
      data_dir |-> p[2],
      config_file |-> p[3],
      lock_file |-> lock_file_of(p[2], ro.profile),
      clone_dir |-> clone_dir_of(p[2]),
      download_dir |-> download_dir_of(p[2]),
      profile |-> ro.profile,
      output |-> out,
      interactive |-> ~ro.non_interactive,
      lock_mode |-> IF lm = None THEN Some("Normal") ELSE lm ]

\* The Context assembled from the locals.
context_of(ro, h, p, out, lm) ==
    [ version |-> "CRATE_RELEASE",
      home |-> h,
      config_dir |-> p[1],
      data_dir |-> p[2],
      config_file |-> p[3],
      lock_file |-> lock_file_of(p[2], ro.profile),
      clone_dir |-> clone_dir_of(p[2]),
      download_dir |-> download_dir_of(p[2]),
      profile |-> ro.profile,
      output |-> out,
      interactive |-> ~ro.non_interactive,
      lock_mode |-> lm ]

\* `let lock_file = ...; let ctx = Context { ... }; Self { ctx, command }`
BuildContext ==
    /\ pc = "context"
    /\ opt' = Some([ ctx |-> context_of(raw_opt, Unwrap(home), Unwrap(paths),
                                        Unwrap(output), lock_mode),
                     command |-> Unwrap(command) ])
    /\ pc' = "returned"
    /\ UNCHANGED <<raw_opt, command, lock_mode, output, home, paths, exit_code,
                   stdout, stderr, env, called>>

Next ==
    \/ MatchInit
    \/ MatchAdd
    \/ MatchEdit
    \/ MatchRemove
    \/ MatchLock
    \/ MatchSource
    \/ MatchCompletions
    \/ MatchVersion
    \/ BuildOutput
    \/ LookupHome
    \/ ResolvePaths
    \/ BuildContext

Spec == Init /\ [][Next]_vars

-----------------------------------------------------------------------------
(* Vocabulary of the properties.                                            *)

IsName(t) == t # SEP

\* The components of a path, the root aside.
Names(p) == SelectSeq(p, IsName)

\* `p` is the path `dir` followed by the components `names`; two paths are
\* the same path when they have the same root and the same components.
IsUnder(p, dir, names) ==
    /\ is_absolute(p) = is_absolute(dir)
    /\ Names(p) = Names(dir) \o names

\* A text in which no two runs of characters are neighbours.
RECURSIVE Fuse(_)
Fuse(t) ==
    IF Len(t) < 2 THEN t
    ELSE IF t[1] # SEP /\ t[2] # SEP
         THEN Fuse(<<t[1] \o t[2]>> \o SubSeq(t, 3, Len(t)))
         ELSE <<t[1]>> \o Fuse(Tail(t))

Range(f) == {f[i] : i \in DOMAIN f}

WasCalled(fn) == fn \in Range(called)

WasRead(name) == name \in DOMAIN env

Kind == raw_opt.command.kind

Returned == pc = "returned"

Ctx == Unwrap(opt).ctx

HomeMessage == "failed to determine the current user's home directory"

ParentMessage == "failed to get parent directory of config file path"

\* log_error has printed exactly one error, with this message and this path.
Logged(msg, path) ==
    /\ Len(stderr) = 1
    /\ stderr[1].err = [msg |-> msg, path |-> path]

OnlyConfigFile == ~IsSome(raw_opt.config_dir) /\ IsSome(raw_opt.config_file)

-----------------------------------------------------------------------------

\* C1: whenever resolve_paths has returned Ok, its result is the one of the
\* precedence table: both config inputs explicit -> both verbatim; only the
\* file -> the file verbatim and config_dir its parent; only the directory ->
\* the directory verbatim and config_file = config_dir/plugins.toml; neither ->
\* config_dir = (XDG_CONFIG_HOME if set, else home/.config)/sheldon and
\* config_file = config_dir/plugins.toml; data_dir is the explicit value, else
\* (XDG_DATA_HOME if set, else home/.local/share)/sheldon, whatever the config
\* inputs are.  The Context returned carries these three paths.
C1_PathTable ==
    IsSome(paths) =>
        LET cd == raw_opt.config_dir
            cf == raw_opt.config_file
            dd == raw_opt.data_dir
            h == Unwrap(home)
            r == Unwrap(paths)
        IN
        /\ (IsSome(cd) /\ IsSome(cf)) =>
                r[1] = Unwrap(cd) /\ r[3] = Unwrap(cf)
        /\ (~IsSome(cd) /\ IsSome(cf)) =>
                /\ r[3] = Unwrap(cf)
                /\ Names(Unwrap(cf)) # <<>>
                /\ is_absolute(r[1]) = is_absolute(Unwrap(cf))
                /\ Names(r[1]) = SubSeq(Names(Unwrap(cf)), 1, Len(Names(Unwrap(cf))) - 1)
        /\ (IsSome(cd) /\ ~IsSome(cf)) =>
                /\ r[1] = Unwrap(cd)
                /\ IsUnder(r[3], Unwrap(cd), <<"plugins.toml">>)
        /\ (~IsSome(cd) /\ ~IsSome(cf)) =>
                /\ WasRead("XDG_CONFIG_HOME")
                /\ IF IsSome(env["XDG_CONFIG_HOME"])
                   THEN IsUnder(r[1], Unwrap(env["XDG_CONFIG_HOME"]), <<"sheldon">>)
                   ELSE IsUnder(r[1], h, <<".config", "sheldon">>)
                /\ IsUnder(r[3], r[1], <<"plugins.toml">>)
        /\ IsSome(dd) => r[2] = Unwrap(dd)
        /\ ~IsSome(dd) =>
                /\ WasRead("XDG_DATA_HOME")
                /\ IF IsSome(env["XDG_DATA_HOME"])
                   THEN IsUnder(r[2], Unwrap(env["XDG_DATA_HOME"]), <<"sheldon">>)
                   ELSE IsUnder(r[2], h, <<".local", "share", "sheldon">>)
        /\ Returned =>
                /\ Ctx.config_dir = r[1]
                /\ Ctx.data_dir = r[2]
                /\ Ctx.config_file = r[3]

\* C1 witness: no explicit path and XDG_CONFIG_HOME=/cfg give /cfg/sheldon and
\* /cfg/sheldon/plugins.toml, with the data directory under the home.
C1_Witness ==
    /\ Returned
    /\ raw_opt.config_dir = None /\ raw_opt.config_file = None
    /\ raw_opt.data_dir = None
    /\ env["XDG_CONFIG_HOME"] = Some(<<SEP, "cfg">>)
    /\ env["XDG_DATA_HOME"] = None
    /\ Ctx.home = <<SEP, "home", SEP, "u">>
    /\ Ctx.config_dir = <<SEP, "cfg", SEP, "sheldon">>
    /\ Ctx.config_file = <<SEP, "cfg", SEP, "sheldon", SEP, "plugins.toml">>
    /\ Ctx.data_dir = <<SEP, "home", SEP, "u", SEP, ".local", SEP, "share", SEP, "sheldon">>

\* The lock mode of this run: the Context's once there is one, the local
\* before.
StoredLockMode == IF IsSome(opt) THEN Ctx.lock_mode ELSE lock_mode

\* C2: once the match has produced a command, the lock mode is the one of the
\* table.  lock: (F,F) Normal, (T,F) Update, (F,T) Reinstall, never absent.
\* source: (F,F,F) absent, relock alone Normal, update without reinstall
\* Update, reinstall without update Reinstall, with or without relock.
C2_LockModeTable ==
    IsSome(command) =>
        LET c == raw_opt.command IN
        /\ Kind = "Lock" =>
              /\ StoredLockMode # None
              /\ (~c.update /\ ~c.reinstall) => StoredLockMode = Some("Normal")
              /\ (c.update /\ ~c.reinstall) => StoredLockMode = Some("Update")
              /\ (~c.update /\ c.reinstall) => StoredLockMode = Some("Reinstall")
        /\ Kind = "Source" =>
              /\ (~c.relock /\ ~c.update /\ ~c.reinstall) => StoredLockMode = None
              /\ (c.relock /\ ~c.update /\ ~c.reinstall) => StoredLockMode = Some("Normal")
              /\ (c.update /\ ~c.reinstall) => StoredLockMode = Some("Update")
              /\ (~c.update /\ c.reinstall) => StoredLockMode = Some("Reinstall")

\* C2 witness: `source --relock --update` has returned with Some(Update).
C2_Witness ==
    /\ Returned
    /\ Kind = "Source"
    /\ raw_opt.command.relock /\ raw_opt.command.update
    /\ Unwrap(opt).command = [kind |-> "Source"]
    /\ Ctx.lock_mode = Some("Update")

\* The config file is a path without a parent directory component: it has
\* at most one component and no root in front of it (a bare file name, or
\* the empty path), or it is the root alone.
NoParentComponent(file) ==
    \/ Len(Names(file)) = 0
    \/ Len(Names(file)) = 1 /\ ~is_absolute(file)

\* The run has ended in the fatal error about the parent of `file`.
FailedOnParent(file) ==
    /\ pc = "exited"
    /\ exit_code = Some(1)
    /\ Logged(ParentMessage, Some(file))
    /\ paths = None
    /\ opt = None

\* C3 as stated: with only the config file explicit and no parent directory
\* component in it (a bare file name such as y.toml included), path
\* resolution fails with the error that names the path and returns no
\* config_dir.
C3_BareFileNameFails ==
    (WasCalled("resolve_paths") /\ OnlyConfigFile
        /\ NoParentComponent(Unwrap(raw_opt.config_file)))
    => FailedOnParent(Unwrap(raw_opt.config_file))

\* C3 amended: with only the config file explicit, path resolution fails with
\* the error that names the path, and returns no config_dir, exactly when the
\* path has no component at all (the empty path, or the root); a path of one
\* component without a root, such as y.toml, resolves with the empty path as
\* config_dir and the file verbatim.
C3_NoComponentFails ==
    (WasCalled("resolve_paths") /\ OnlyConfigFile) =>
        LET file == Unwrap(raw_opt.config_file) IN
        /\ Names(file) = <<>> => FailedOnParent(file)
        /\ Names(file) # <<>> =>
              /\ IsSome(paths)
              /\ stderr = <<>>
              /\ exit_code = None
              /\ Unwrap(paths)[3] = file
        /\ (Len(Names(file)) = 1 /\ ~is_absolute(file)) => Unwrap(paths)[1] = <<>>

\* C3 witness: --config-file / alone has ended the run with the error.
C3_Witness ==
    /\ OnlyConfigFile
    /\ raw_opt.config_file = Some(<<SEP>>)
    /\ WasCalled("resolve_paths")
    /\ pc = "exited"
    /\ exit_code = Some(1)
    /\ stderr[1].err.path = Some(<<SEP>>)

\* C4: a home directory lookup that finds nothing ends the run with the
\* fatal error and exit code 1: no Opt and no Context exist, and resolve_paths
\* has not been called and never is, the state being final.
C4_HomeFailure ==
    (WasRead("home_dir") /\ env["home_dir"] = None) =>
        /\ pc = "exited"
        /\ exit_code = Some(1)
        /\ Logged(HomeMessage, None)
        /\ opt = None
        /\ home = None
        /\ paths = None
        /\ ~WasCalled("resolve_paths")
        /\ ~WasRead("XDG_CONFIG_HOME") /\ ~WasRead("XDG_DATA_HOME")

\* C4 witness: the lookup has failed on a run whose config file has no parent.
C4_Witness ==
    /\ WasRead("home_dir")
    /\ env["home_dir"] = None
    /\ exit_code = Some(1)
    /\ IsSome(command)
    /\ OnlyConfigFile
    /\ raw_opt.config_file = Some(<<>>)

\* The text "plugins.<profile>.lock".
ProfileLockName(profile) == Fuse(<<"plugins.">> \o profile \o <<".lock">>)

\* C5: in the Context returned, lock_file is data_dir/plugins.lock when the
\* profile is absent or empty and data_dir/plugins.<profile>.lock otherwise,
\* clone_dir is data_dir/repos and download_dir is data_dir/downloads, where
\* data_dir is the resolved data directory: nothing else enters.
C5_DerivedPaths ==
    Returned =>
        LET d == Ctx.data_dir
            pr == raw_opt.profile
        IN
        /\ d = Unwrap(paths)[2]
        /\ Ctx.profile = pr
        /\ (pr = None \/ pr = Some(<<>>)) => IsUnder(Ctx.lock_file, d, <<"plugins.lock">>)
        /\ (pr # None /\ pr # Some(<<>>)) =>
              IsUnder(Ctx.lock_file, d, Names(ProfileLockName(Unwrap(pr))))
        /\ IsUnder(Ctx.clone_dir, d, <<"repos">>)
        /\ IsUnder(Ctx.download_dir, d, <<"downloads">>)

\* C5 witness: `source --update` with the profile "work" and --data-dir /d/.
C5_Witness ==
    /\ Returned
    /\ Kind = "Source"
    /\ raw_opt.command.update
    /\ raw_opt.profile = Some(<<"work">>)
    /\ Ctx.lock_mode = Some("Update")
    /\ Ctx.data_dir = <<SEP, "d", SEP>>
    /\ Ctx.lock_file = <<SEP, "d", SEP, "plugins.work.lock">>
    /\ Ctx.clone_dir = <<SEP, "d", SEP, "repos">>
    /\ Ctx.download_dir = <<SEP, "d", SEP, "downloads">>

\* C6: once the match has handled Completions or Version, the run has exited
\* with code 0 after printing: no command and no Opt exist, nothing was
\* logged as an error, and neither the home lookup nor resolve_paths was
\* reached.
C6_LeafActionsExitZero ==
    (Kind \in {"Completions", "Version"} /\ pc # "match") =>
        /\ pc = "exited"
        /\ exit_code = Some(0)
        /\ Len(stdout) = 1
        /\ stderr = <<>>
        /\ command = None
        /\ output = None
        /\ opt = None
        /\ ~WasCalled("home_dir") /\ ~WasRead("home_dir")
        /\ ~WasCalled("resolve_paths")

\* C6 witness: `version` with a config file that has no parent has exited 0.
C6_Witness ==
    /\ Kind = "Version"
    /\ OnlyConfigFile
    /\ raw_opt.config_file = Some(<<>>)
    /\ pc = "exited"
    /\ exit_code = Some(0)
    /\ stdout = <<[what |-> "version", shell |-> None]>>

\* The raw command holds a combination the parser's groups exclude.
Conflict(c) ==
    \/ c.kind = "Lock" /\ c.update /\ c.reinstall
    \/ c.kind = "Source" /\ c.update /\ c.reinstall
    \/ c.kind = "Add" /\ Cardinality({f \in {"branch", "rev", "tag"} : IsSome(c.add[f])}) >= 2

\* C7: once the match has handled a combination the parser excludes, the run
\* has panicked: no command, lock mode, Opt or Context exists, nothing was
\* logged through log_error and process::exit was not called.
C7_ConflictPanics ==
    (Conflict(raw_opt.command) /\ pc # "match") =>
        /\ pc = "panicked"
        /\ command = None
        /\ lock_mode = None
        /\ opt = None
        /\ exit_code = None
        /\ stderr = <<>>

\* C7 witness: `add --branch main --tag v1` has panicked.
C7_Witness ==
    /\ Kind = "Add"
    /\ IsSome(raw_opt.command.add.branch)
    /\ ~IsSome(raw_opt.command.add.rev)
    /\ IsSome(raw_opt.command.add.tag)
    /\ pc = "panicked"

\* The raw reference trio that names the reference `r`.
TrioOf(r) ==
    [ branch |-> IF IsSome(r) /\ Unwrap(r).kind = "Branch" THEN Some(Unwrap(r).s) ELSE None,
      rev |-> IF IsSome(r) /\ Unwrap(r).kind = "Rev" THEN Some(Unwrap(r).s) ELSE None,
      tag |-> IF IsSome(r) /\ Unwrap(r).kind = "Tag" THEN Some(Unwrap(r).s) ELSE None ]

\* C8: for add with at most one of branch, rev, tag, the plugin's reference is
\* Branch, Rev or Tag of the one present, with its string, and absent when
\* none is; the raw trio that names this reference resolves to it again.
C8_GitReference ==
    (Kind = "Add" /\ IsSome(command)) =>
        LET a == raw_opt.command.add
            ref == Unwrap(command).plugin.reference
            again == reference_of(TrioOf(ref).branch, TrioOf(ref).rev, TrioOf(ref).tag)
        IN
        /\ ~Conflict(raw_opt.command)
        /\ IsSome(a.branch) => ref = Some([kind |-> "Branch", s |-> Unwrap(a.branch)])
        /\ IsSome(a.rev) => ref = Some([kind |-> "Rev", s |-> Unwrap(a.rev)])
        /\ IsSome(a.tag) => ref = Some([kind |-> "Tag", s |-> Unwrap(a.tag)])
        /\ (~IsSome(a.branch) /\ ~IsSome(a.rev) /\ ~IsSome(a.tag)) => ref = None
        /\ ~again.panic /\ again.value = ref
        /\ Unwrap(command).name = a.name
        /\ Returned => Unwrap(opt).command = Unwrap(command)

\* C8 witness: `add foo --github user/repo --rev abc123` has returned Rev.
C8_Witness ==
    /\ Returned
    /\ Kind = "Add"
    /\ raw_opt.command.add.rev = Some(<<"abc123">>)
    /\ Unwrap(opt).command.name = <<"foo">>
    /\ Unwrap(opt).command.plugin.reference = Some([kind |-> "Rev", s |-> <<"abc123">>])

\* Whether standard output was found to be a terminal, when that was asked.
TtyFound == WasRead("stdout_is_tty") /\ Unwrap(env["stdout_is_tty"])

\* C9: the verbosity is Quiet when quiet is set, whatever else is; Verbose
\* when verbose is set and quiet is not; Normal when neither is; no_color is
\* the negation of is_color of the color choice; the Context carries both.
C9_OutputPolicy ==
    IsSome(output) =>
        LET o == Unwrap(output) IN
        /\ raw_opt.quiet => o.verbosity = "Quiet"
        /\ (~raw_opt.quiet /\ raw_opt.verbose) => o.verbosity = "Verbose"
        /\ (~raw_opt.quiet /\ ~raw_opt.verbose) => o.verbosity = "Normal"
        /\ o.no_color = ~is_color(raw_opt.color, TtyFound)
        /\ Returned => Ctx.output = o

\* C9 witness: quiet and verbose both set, colors always on, no interaction.
C9_Witness ==
    /\ Returned
    /\ raw_opt.quiet /\ raw_opt.verbose /\ raw_opt.non_interactive
    /\ raw_opt.color = "Always"
    /\ Ctx.output = [verbosity |-> "Quiet", no_color |-> FALSE]
    /\ ~Ctx.interactive

\* C10: in every Opt returned, a lock mode is present only if the command is
\* Lock or Source; for Init, Add, Edit and Remove it is absent.
C10_LockModeOnlyForLocking ==
    Returned =>
        /\ Unwrap(opt).command.kind \in {"Init", "Add", "Edit", "Remove"}
              => Ctx.lock_mode = None
        /\ IsSome(Ctx.lock_mode) => Unwrap(opt).command.kind \in {"Lock", "Source"}

\* C10 witness: `init` with every global flag set has returned without a mode.
C10_Witness ==
    /\ Returned
    /\ Unwrap(opt).command.kind = "Init"
    /\ raw_opt.quiet /\ raw_opt.verbose /\ raw_opt.non_interactive
    /\ IsSome(raw_opt.profile)
    /\ Ctx.lock_mode = None

====
